---- MODULE Spec2Model ----
(***************************************************************************)
(* A model of yay's upgrade.go: the concurrent upgrade aggregator upList   *)
(* with its two fetchers upRepo and upAUR (and upAUR's sub-tasks upDevel   *)
(* and the main AUR comparison), and the selection step upgradePkgs.       *)
(*                                                                         *)
(* Strings of the program that are indexed character by character (the     *)
(* selection line, repository names in Less) are sequences: of             *)
(* one-character strings for the line, of rune code points for             *)
(* repository names.                                                       *)
(***************************************************************************)
EXTENDS Integers, Sequences, FiniteSets, TLC

VARIABLES
    \* the world upList runs in (fixed during a run)
    filterErr,    \* filterPackages() fails
    syncErr,      \* alpmHandle.SyncDbs() fails
    local,        \* installed packages found in a sync database
    remote,       \* installed foreign packages
    dtAur,        \* dt.Aur: name -> AUR package
    savedInfo,    \* VCS metadata: name -> needsUpdate()
    config,       \* config.Devel, config.TimeUpdate, config.NoConfirm
    \* upList
    pcMain, i, repoUp, aurUp, err, printed, spins, closed,
    errRecvd,     \* values received on errC so far
    \* goroutine of upRepo
    pcRepo, repoUpList, repoErr,
    \* goroutine of upAUR
    pcAur, aurUpList, aurErr, toUpgrade, routines, routineDone,
    \* upDevel
    pcDevel, develTodo, develPkg,
    \* the main AUR comparison
    pcCmp, cmpIdx, cmpPkg,
    \* what the sub-tasks did: records put up for sending on packageC,
    \* names handed to removeVCSPackage, warnings printed
    offered, removed, warned,
    \* upgradePkgs
    pcUp,          \* where upgradePkgs stands
    shown,         \* the rows printed by repoUp.Print and aurUp.Print
    readResult,    \* what reader.ReadLine() gave: a line, an error, an overflow
    line,          \* the selection line (numberBuf)
    result,        \* its tokens (strings.Fields of the line)
    aurNums, repoNums, excludeAur, excludeRepo,
    repoNames, aurNames, upErr,    \* the three results of upgradePkgs
    \* getVersionDiff
    pcDiff, oldVersion, newversion, left, right

worldVars == <<filterErr, syncErr, local, remote, dtAur, savedInfo, config>>
mainVars  == <<pcMain, i, repoUp, aurUp, err, printed, spins, closed, errRecvd>>
repoVars  == <<pcRepo, repoUpList, repoErr>>
aurVars   == <<pcAur, aurUpList, aurErr, toUpgrade, routines, routineDone>>
develVars == <<pcDevel, develTodo, develPkg>>
cmpVars   == <<pcCmp, cmpIdx, cmpPkg>>
histVars  == <<offered, removed, warned>>
selVars   == <<pcUp, shown, readResult, line, result, aurNums, repoNums, excludeAur,
               excludeRepo, repoNames, aurNames, upErr>>

diffVars  == <<pcDiff, oldVersion, newversion, left, right>>

vars == <<worldVars, mainVars, repoVars, aurVars, develVars, cmpVars, histVars,
         selVars, diffVars>>

----------------------------------------------------------------------------
(* Bounds of the model *)

MaxLocal  == 1   \* installed repository packages
MaxRemote == 1   \* installed foreign packages, in the runs of upList
MaxAurRemote == 1   \* installed foreign packages, in the runs of upAUR alone
MaxSpin   == 2   \* empty iterations of upList's loop that are counted
MaxRepoUp == 2   \* entries of repoUp, in the runs of upgradePkgs
MaxAurUp  == 2   \* entries of aurUp, in the runs of upgradePkgs
MaxLineLen == 4  \* characters of the selection line
MaxVerLen == 3   \* characters of a version string given to getVersionDiff
MaxTokens == 3   \* tokens of the selection line, where its parsing runs alone

----------------------------------------------------------------------------
(* Values *)

Nil == "nil"

\* repository names as rune code points
RepoCore  == <<99, 111, 114, 101>>          \* "core"
RepoExtra == <<101, 120, 116, 114, 97>>     \* "extra"
RepoAur   == <<97, 117, 114>>               \* "aur"
RepoDevel == <<100, 101, 118, 101, 108>>    \* "devel"

\* type upgrade struct
upgrade(name, repository, localVersion, remoteVersion) ==
    [Name |-> name, Repository |-> repository,
     LocalVersion |-> localVersion, RemoteVersion |-> remoteVersion]

\* alpm.VerCmp on the versions of the model: <0, 0, >0
VerRank(v) ==
    CASE v = "1.0-1" -> 1
      [] v = "1.0-2" -> 2
      [] v = "1.1-1" -> 3
      [] OTHER       -> 0

VerCmp(a, b) ==
    IF VerRank(a) < VerRank(b) THEN -1
    ELSE IF VerRank(a) > VerRank(b) THEN 1 ELSE 0

Range(s) == {s[k] : k \in DOMAIN s}

----------------------------------------------------------------------------
(* The worlds a run is started in *)

LocalNames  == <<"a1", "a2", "a3", "a4">>
LocalDBs    == <<RepoCore, RepoExtra, RepoCore, RepoExtra>>
RemoteNames == <<"b1", "b2", "b3", "b4">>
StaleName   == "gone-git"

InstalledVersion == "1.0-2"

\* an installed repository package: pkg.NewVersion(dbList) is nil when
\* NewVersion = "", else a package of that version in database NewDB
LocalPkg(k, ignore, newVersion) ==
    [Name |-> LocalNames[k], Version |-> InstalledVersion, Ignore |-> ignore,
     NewVersion |-> newVersion, NewDB |-> LocalDBs[k]]

LocalAttrs ==
    {[Ignore |-> FALSE, NewVersion |-> ""],
     [Ignore |-> FALSE, NewVersion |-> "1.1-1"],
     [Ignore |-> TRUE,  NewVersion |-> "1.1-1"]}

LocalWorlds ==
    UNION {{[k \in 1..n |-> LocalPkg(k, f[k].Ignore, f[k].NewVersion)] :
                f \in [1..n -> LocalAttrs]} : n \in 0..MaxLocal}

\* an installed foreign package
RemotePkg(k, ignore) ==
    [Name |-> RemoteNames[k], Version |-> InstalledVersion, Ignore |-> ignore,
     BuildDate |-> 2]

\* an entry of dt.Aur
AurPkg(name, version, lastModified) ==
    [Name |-> name, Version |-> version, LastModified |-> lastModified]

\* what the AUR knows of one installed foreign package: nothing, or a version
\* and a modification time
NoAur == [Has |-> FALSE, Version |-> "", LastModified |-> 0]
AurInfo(version, lastModified) ==
    [Has |-> TRUE, Version |-> version, LastModified |-> lastModified]

RemoteAttrsSmall ==
    {[Ignore |-> FALSE, Aur |-> NoAur],
     [Ignore |-> FALSE, Aur |-> AurInfo("1.1-1", 1)],
     [Ignore |-> TRUE,  Aur |-> AurInfo("1.1-1", 1)]}

RemoteAttrsAll ==
    {[Ignore |-> FALSE, Aur |-> NoAur]} \cup
    {[Ignore |-> g, Aur |-> AurInfo(v, t)] :
        g \in BOOLEAN, v \in {"1.0-1", "1.0-2", "1.1-1"}, t \in {2, 3}}

\* remote and dt.Aur of a world with n foreign packages of attributes f
RemoteOf(n, f) == [k \in 1..n |-> RemotePkg(k, f[k].Ignore)]
DtAurOf(n, f) ==
    [name \in {RemoteNames[k] : k \in {j \in 1..n : f[j].Aur.Has}} |->
        LET k == CHOOSE j \in 1..n : RemoteNames[j] = name
        IN  AurPkg(name, f[k].Aur.Version, f[k].Aur.LastModified)]

\* savedInfo: the VCS entries, each with the value of needsUpdate()
SavedInfos(names) == UNION {[S -> BOOLEAN] : S \in SUBSET names}
SavedInfosSmall ==
    {f \in SavedInfos({RemoteNames[1], StaleName}) :
        Cardinality(DOMAIN f) <= 1 /\ \A n \in DOMAIN f : f[n]}
SavedInfosAll == SavedInfos({RemoteNames[1], RemoteNames[2], StaleName})

Configs(devels, timeUpdates, noConfirms) ==
    {[Devel |-> d, TimeUpdate |-> t, NoConfirm |-> c] :
        d \in devels, t \in timeUpdates, c \in noConfirms}

----------------------------------------------------------------------------
(* upRepo *)

\* the loop of upRepo over local[k..]: the records appended to slice
RECURSIVE upRepoFromNoIgnore(_, _)
upRepoFromNoIgnore(pkgs, k) ==
    IF k > Len(pkgs) THEN <<>>
    ELSE LET pkg == pkgs[k]
         IN  IF pkg.NewVersion # ""
             THEN <<upgrade(pkg.Name, pkg.NewDB, pkg.Version, pkg.NewVersion)>>
                      \o upRepoFromNoIgnore(pkgs, k + 1)
             ELSE upRepoFromNoIgnore(pkgs, k + 1)

RECURSIVE upRepoFrom(_, _)
upRepoFrom(pkgs, k) ==
    IF k > Len(pkgs) THEN <<>>
    ELSE LET pkg == pkgs[k]
         IN  IF pkg.NewVersion # "" /\ ~pkg.Ignore
             THEN <<upgrade(pkg.Name, pkg.NewDB, pkg.Version, pkg.NewVersion)>>
                      \o upRepoFrom(pkgs, k + 1)
             ELSE upRepoFrom(pkgs, k + 1)

\* upRepo: (slice, err), and the names it warns about
upRepo(pkgs, dbFails) ==
    IF dbFails
    THEN [slice |-> <<>>, err |-> "SyncDbsError", warned |-> {}]
    ELSE [slice |-> upRepoFrom(pkgs, 1), err |-> Nil,
          warned |-> {pkgs[k].Name : k \in {j \in DOMAIN pkgs :
                          pkgs[j].NewVersion # "" /\ pkgs[j].Ignore}}]

----------------------------------------------------------------------------
(* upList: the aggregator and its two fetcher goroutines *)

\* the state before upList is called, in a world drawn from the given sets
InitWorld(filterErrs, syncErrs, locals, maxRemote, attrs, saveds, configs) ==
    /\ filterErr \in filterErrs
    /\ syncErr \in IF filterErr THEN {FALSE} ELSE syncErrs
    /\ local \in IF filterErr THEN {<<>>} ELSE locals
    /\ \E n \in 0..(IF filterErr THEN 0 ELSE maxRemote) : \E f \in [1..n -> attrs] :
          /\ remote = RemoteOf(n, f)
          /\ dtAur = DtAurOf(n, f)
    /\ savedInfo \in saveds
    /\ config \in configs

\* nothing has run yet
InitIdle ==
    /\ i = 0 /\ repoUp = <<>> /\ aurUp = <<>> /\ err = Nil
    /\ printed = <<>> /\ spins = 0 /\ closed = FALSE /\ errRecvd = 0
    /\ repoUpList = <<>> /\ repoErr = Nil
    /\ aurUpList = <<>> /\ aurErr = Nil
    /\ toUpgrade = <<>> /\ routines = 0 /\ routineDone = 0
    /\ pcDevel = "idle" /\ develTodo = {} /\ develPkg = <<>>
    /\ pcCmp = "idle" /\ cmpIdx = 1 /\ cmpPkg = <<>>
    /\ offered = <<>> /\ removed = {} /\ warned = {}
    /\ shown = <<>> /\ readResult = "none" /\ line = <<>> /\ result = <<>>
    /\ aurNums = <<>> /\ repoNums = <<>> /\ excludeAur = <<>> /\ excludeRepo = <<>>
    /\ repoNames = {} /\ aurNames = {} /\ upErr = Nil

InitProcs ==
    /\ InitIdle
    /\ pcDiff = "idle" /\ oldVersion = <<>> /\ newversion = <<>>
    /\ left = <<>> /\ right = <<>>

Init ==
    /\ InitWorld(BOOLEAN, BOOLEAN, LocalWorlds, MaxRemote, RemoteAttrsSmall,
                 SavedInfosSmall, Configs(BOOLEAN, {FALSE}, {FALSE}))
    /\ InitProcs
    /\ pcMain = "start" /\ pcRepo = "idle" /\ pcAur = "idle" /\ pcUp = "idle"

\* upAUR on its own: upList has started its two goroutines, and only the one
\* of upAUR and its sub-tasks are followed, in every world of foreign packages
InitAUR ==
    /\ InitWorld({FALSE}, {FALSE}, {<<>>}, MaxAurRemote, RemoteAttrsAll,
                 SavedInfosAll, Configs(BOOLEAN, BOOLEAN, {FALSE}))
    /\ InitProcs
    /\ pcMain = "loop" /\ pcRepo = "run" /\ pcAur = "run" /\ pcUp = "idle"

\* lines 99-120: filterPackages, the channels, the two go statements
UpListStart ==
    /\ pcMain = "start"
    /\ IF filterErr
       THEN /\ err' = "FilterError"
            /\ pcMain' = "done"
            /\ UNCHANGED <<pcRepo, pcAur>>
       ELSE /\ err' = Nil
            /\ pcMain' = "loop"
            /\ pcRepo' = "run"
            /\ pcAur' = "run"
    /\ i' = 0
    /\ UNCHANGED <<worldVars, diffVars, selVars, repoUp, aurUp, printed, spins, closed,
                   errRecvd,
                   repoUpList, repoErr, aurUpList, aurErr, toUpgrade, routines,
                   routineDone, develVars, cmpVars, histVars>>

\* line 110: the first goroutine runs upRepo, then stands at errC <- err
RepoRun ==
    /\ pcRepo = "run"
    /\ LET r == upRepo(local, syncErr)
       IN  /\ repoUpList' = r.slice
           /\ repoErr' = r.err
           /\ warned' = warned \cup {<<"repo", n>> : n \in r.warned}
    /\ pcRepo' = "sendErr"
    /\ UNCHANGED <<worldVars, diffVars, selVars, mainVars, aurVars, develVars, cmpVars, offered, removed>>

\* the cases of the select of lines 125-141 that can proceed
RepoCReadyEarly == pcRepo \in {"sendErr", "sendList"}
RepoCReady == pcRepo = "sendList"
AurCReady  == pcAur = "sendList"
ErrCReady  == {g \in {"repo", "aur"} :
                 (g = "repo" /\ pcRepo = "sendErr") \/ (g = "aur" /\ pcAur = "sendErr")}

\* the value of upList's result err after `case err := <-errC`: the received
\* error is bound to a new variable of the case, the result is left alone
ErrAssigned(outer, received) == received
ErrAfterRecv(outer, received) == outer

\* line 135: the condition under which the default case leaves the loop
LoopExitEarly(n) == n >= 1
LoopExitNever(n) == n = 3
LoopExit(n) == n = 2

\* case repoUp = <-repoC
RecvRepoC ==
    /\ pcMain = "loop" /\ RepoCReady
    /\ repoUp' = repoUpList
    /\ i' = i + 1
    /\ pcRepo' = "end"
    /\ UNCHANGED <<worldVars, diffVars, selVars, pcMain, aurUp, err, printed, spins, closed,
                   errRecvd,
                   repoUpList, repoErr, aurVars, develVars, cmpVars, histVars>>

\* case aurUp = <-aurC
RecvAurC ==
    /\ pcMain = "loop" /\ AurCReady
    /\ aurUp' = aurUpList
    /\ i' = i + 1
    /\ pcAur' = "end"
    /\ UNCHANGED <<worldVars, diffVars, selVars, pcMain, repoUp, err, printed, spins, closed,
                   errRecvd,
                   repoVars, aurUpList, aurErr, toUpgrade, routines, routineDone,
                   develVars, cmpVars, histVars>>

\* case err := <-errC, from either goroutine
RecvErrC ==
    /\ pcMain = "loop"
    /\ \E g \in ErrCReady :
          LET e == IF g = "repo" THEN repoErr ELSE aurErr
          IN  /\ printed' = IF e # Nil THEN Append(printed, e) ELSE printed
              /\ errRecvd' = errRecvd + 1
              /\ err' = ErrAfterRecv(err, e)
              /\ IF g = "repo"
                 THEN pcRepo' = "sendList" /\ UNCHANGED pcAur
                 ELSE pcAur' = "sendList" /\ UNCHANGED pcRepo
    /\ UNCHANGED <<worldVars, diffVars, selVars, pcMain, i, repoUp, aurUp, spins, closed,
                   repoUpList, repoErr, aurUpList, aurErr, toUpgrade, routines,
                   routineDone, develVars, cmpVars, histVars>>

\* default: taken when no fetcher stands at a send
SelectDefault ==
    /\ pcMain = "loop"
    /\ ~RepoCReady /\ ~AurCReady /\ ErrCReady = {}
    /\ IF LoopExit(i)
       THEN /\ closed' = TRUE
            /\ pcMain' = "done"
            /\ UNCHANGED spins
       ELSE /\ spins' = IF spins < MaxSpin THEN spins + 1 ELSE spins
            /\ UNCHANGED <<closed, pcMain>>
    /\ UNCHANGED <<worldVars, diffVars, selVars, i, repoUp, aurUp, err, printed, errRecvd,
                   repoVars, aurVars, develVars, cmpVars, histVars>>

----------------------------------------------------------------------------
(* upAUR, upDevel and the main AUR comparison *)

\* lines 175-187: routines after the optional routines++ for upDevel and the
\* routines++ for the main comparison
RoutinesMainOnly(devel) == 1
Routines(devel) == (IF devel THEN 1 ELSE 0) + 1

\* lines 218-223: the scan of toUpgrade for pkg.Name only continues its own
\* loop; the append that follows it always happens
AppendUpgrade(list, pkg) == Append(list, pkg)

\* lines 149-156: the last package of remote named vcsName, if any
DevelMatches(pkgs, vcsName) == {k \in DOMAIN pkgs : pkgs[k].Name = vcsName}
DevelFound(pkgs, vcsName) == DevelMatches(pkgs, vcsName) # {}
DevelPkg(pkgs, vcsName) ==
    pkgs[CHOOSE k \in DevelMatches(pkgs, vcsName) :
            \A j \in DevelMatches(pkgs, vcsName) : j <= k]

\* line 162: the record upDevel sends
DevelUpgrade(pkg) == upgrade(pkg.Name, RepoDevel, pkg.Version, "latest-commit")

\* lines 195-196: the condition of the main comparison
QualifiesAnyTime(pkg, aurPkg, timeUpdate) ==
    \/ aurPkg.LastModified > pkg.BuildDate
    \/ VerCmp(pkg.Version, aurPkg.Version) < 0
Qualifies(pkg, aurPkg, timeUpdate) ==
    \/ timeUpdate /\ aurPkg.LastModified > pkg.BuildDate
    \/ VerCmp(pkg.Version, aurPkg.Version) < 0

\* line 202: the record the main comparison sends
AurUpgrade(pkg, aurPkg) == upgrade(aurPkg.Name, RepoAur, pkg.Version, aurPkg.Version)

\* where upDevel stands once it has no record to send: at the next entry of
\* savedInfo, or at done <- true
DevelNextEarly(todo) == "done"
DevelNext(todo) == IF todo = {} THEN "done" ELSE "iter"
\* the same for the main comparison, about to look at remote[k]
CmpNext(k) == IF k > Len(remote) THEN "done" ELSE "iter"

\* lines 174-213: upAUR up to its receive loop
AurStart ==
    /\ pcAur = "run"
    /\ routines' = Routines(config.Devel)
    /\ routineDone' = 0
    /\ toUpgrade' = <<>>
    /\ IF config.Devel
       THEN /\ develTodo' = DOMAIN savedInfo
            /\ pcDevel' = DevelNext(DOMAIN savedInfo)
       ELSE UNCHANGED <<pcDevel, develTodo>>
    /\ cmpIdx' = 1
    /\ pcCmp' = CmpNext(1)
    /\ IF 0 = routines'
       THEN pcAur' = "sendErr" /\ aurUpList' = <<>> /\ aurErr' = Nil
       ELSE pcAur' = "select" /\ UNCHANGED <<aurUpList, aurErr>>
    /\ UNCHANGED <<worldVars, diffVars, selVars, mainVars, repoVars, develPkg, cmpPkg, histVars>>

\* lines 147-168: upDevel looks at one entry of savedInfo (a map: any order)
DevelIter ==
    /\ pcDevel = "iter"
    /\ \E vcsName \in develTodo :
          /\ develTodo' = develTodo \ {vcsName}
          /\ IF ~savedInfo[vcsName]
             THEN /\ pcDevel' = DevelNext(develTodo')
                  /\ UNCHANGED <<develPkg, histVars>>
             ELSE IF ~DevelFound(remote, vcsName)
             THEN /\ removed' = removed \cup {vcsName}
                  /\ pcDevel' = DevelNext(develTodo')
                  /\ UNCHANGED <<develPkg, offered, warned>>
             ELSE LET pkg == DevelPkg(remote, vcsName)
                  IN  IF pkg.Ignore
                      THEN /\ warned' = warned \cup {<<"devel", pkg.Name>>}
                           /\ pcDevel' = DevelNext(develTodo')
                           /\ UNCHANGED <<develPkg, offered, removed>>
                      ELSE /\ develPkg' = <<DevelUpgrade(pkg)>>
                           /\ offered' = Append(offered, DevelUpgrade(pkg))
                           /\ pcDevel' = "send"
                           /\ UNCHANGED <<removed, warned>>
    /\ UNCHANGED <<worldVars, diffVars, selVars, mainVars, repoVars, aurVars, cmpVars>>

\* lines 189-205: the main comparison looks at remote[cmpIdx]
CmpIter ==
    /\ pcCmp = "iter"
    /\ cmpIdx' = cmpIdx + 1
    /\ LET pkg == remote[cmpIdx]
       IN  IF pkg.Name \notin DOMAIN dtAur
           THEN /\ pcCmp' = CmpNext(cmpIdx + 1)
                /\ UNCHANGED <<cmpPkg, histVars>>
           ELSE LET aurPkg == dtAur[pkg.Name]
                IN  IF ~Qualifies(pkg, aurPkg, config.TimeUpdate)
                    THEN /\ pcCmp' = CmpNext(cmpIdx + 1)
                         /\ UNCHANGED <<cmpPkg, histVars>>
                    ELSE IF pkg.Ignore
                    THEN /\ warned' = warned \cup {<<"aur", pkg.Name>>}
                         /\ pcCmp' = CmpNext(cmpIdx + 1)
                         /\ UNCHANGED <<cmpPkg, offered, removed>>
                    ELSE /\ cmpPkg' = <<AurUpgrade(pkg, aurPkg)>>
                         /\ offered' = Append(offered, AurUpgrade(pkg, aurPkg))
                         /\ pcCmp' = "send"
                         /\ UNCHANGED <<removed, warned>>
    /\ UNCHANGED <<worldVars, diffVars, selVars, mainVars, repoVars, aurVars, develVars>>

\* case pkg := <-packageC, the sender being upDevel
AurRecvDevelPkg ==
    /\ pcAur = "select" /\ pcDevel = "send"
    /\ toUpgrade' = AppendUpgrade(toUpgrade, develPkg[1])
    /\ develPkg' = <<>>
    /\ pcDevel' = DevelNext(develTodo)
    /\ UNCHANGED <<worldVars, diffVars, selVars, mainVars, repoVars, pcAur, aurUpList, aurErr,
                   routines, routineDone, develTodo, cmpVars, histVars>>

\* case pkg := <-packageC, the sender being the main comparison
AurRecvCmpPkg ==
    /\ pcAur = "select" /\ pcCmp = "send"
    /\ toUpgrade' = AppendUpgrade(toUpgrade, cmpPkg[1])
    /\ cmpPkg' = <<>>
    /\ pcCmp' = CmpNext(cmpIdx)
    /\ UNCHANGED <<worldVars, diffVars, selVars, mainVars, repoVars, pcAur, aurUpList, aurErr,
                   routines, routineDone, cmpIdx, develVars, histVars>>

\* lines 224-229: case <-done; upAUR returns (and its goroutine stands at
\* errC <- err) once routineDone == routines
AurDone ==
    /\ routineDone' = routineDone + 1
    /\ IF routineDone' = routines
       THEN pcAur' = "sendErr" /\ aurUpList' = toUpgrade /\ aurErr' = Nil
       ELSE UNCHANGED <<pcAur, aurUpList, aurErr>>
    /\ UNCHANGED <<toUpgrade, routines>>

AurRecvDevelDone ==
    /\ pcAur = "select" /\ pcDevel = "done"
    /\ AurDone
    /\ pcDevel' = "end"
    /\ UNCHANGED <<worldVars, diffVars, selVars, mainVars, repoVars, develTodo, develPkg, cmpVars, histVars>>

AurRecvCmpDone ==
    /\ pcAur = "select" /\ pcCmp = "done"
    /\ AurDone
    /\ pcCmp' = "end"
    /\ UNCHANGED <<worldVars, diffVars, selVars, mainVars, repoVars, cmpIdx, cmpPkg, develVars, histVars>>

----------------------------------------------------------------------------
(* The specifications *)

Aggregator == UpListStart \/ RecvRepoC \/ RecvAurC \/ RecvErrC \/ SelectDefault
AurFetcher == AurStart \/ AurRecvDevelPkg \/ AurRecvCmpPkg
                  \/ AurRecvDevelDone \/ AurRecvCmpDone

Next == Aggregator \/ RepoRun \/ AurFetcher \/ DevelIter \/ CmpIter

Spec == Init /\ [][Next]_vars

NextAUR == AurFetcher \/ DevelIter \/ CmpIter

SpecAUR == InitAUR /\ [][NextAUR]_vars

\* every goroutine that can take a step eventually takes one
FairSpec ==
    /\ Spec
    /\ WF_vars(Aggregator) /\ WF_vars(RepoRun) /\ WF_vars(AurFetcher)
    /\ WF_vars(DevelIter) /\ WF_vars(CmpIter)

----------------------------------------------------------------------------
(* upgradePkgs: sorting and printing *)

\* unicode.ToLower on the runes of the model (ASCII)
ToLower(r) == IF r >= 65 /\ r <= 90 THEN r + 32 ELSE r

Min(a, b) == IF a < b THEN a ELSE b

\* upSlice.Less on two repository names, from rune idx (1-based) on
RECURSIVE LessFrom(_, _, _)
LessFrom(iRunes, jRunes, idx) ==
    IF idx > Min(Len(iRunes), Len(jRunes)) THEN FALSE
    ELSE LET ir == iRunes[idx]
             jr == jRunes[idx]
         IN  IF ToLower(ir) # ToLower(jr) THEN ToLower(ir) > ToLower(jr)
             ELSE IF ir # jr THEN ir > jr
             ELSE LessFrom(iRunes, jRunes, idx + 1)

Less(u, v) == LessFrom(u.Repository, v.Repository, 1)

Swap(u, j, k) == [u EXCEPT ![j] = u[k], ![k] = u[j]]

\* sort.Sort on a slice this short is an insertion sort: the inner loop moves
\* u[j] down while it is Less than its predecessor
RECURSIVE InsertDown(_, _)
InsertDown(u, j) ==
    IF j > 1 /\ Less(u[j], u[j - 1]) THEN InsertDown(Swap(u, j, j - 1), j - 1) ELSE u

RECURSIVE SortFrom(_, _)
SortFrom(u, k) == IF k > Len(u) THEN u ELSE SortFrom(InsertDown(u, k), k + 1)

Sort(u) == SortFrom(u, 2)

\* line 88: the number printed before u[k] (k counted from 0)
DisplayNumberOffByOne(len, start, k) == len + start - k
DisplayNumber(len, start, k) == len + start - k - 1

\* upSlice.Print: one row per entry, in the order of the slice
upSlicePrint(u, start, list) ==
    [k \in 1..Len(u) |->
        [Num |-> DisplayNumber(Len(u), start, k - 1), List |-> list, Index |-> k - 1,
         Repository |-> u[k].Repository, Name |-> u[k].Name]]

----------------------------------------------------------------------------
(* upgradePkgs: parsing the selection line *)

Space == " "

IsDigit(c) == c \in {"0", "1", "2", "3", "4", "5", "6", "7", "8", "9"}
DigitVal(c) ==
    CASE c = "0" -> 0 [] c = "1" -> 1 [] c = "2" -> 2 [] c = "3" -> 3 [] c = "4" -> 4
      [] c = "5" -> 5 [] c = "6" -> 6 [] c = "7" -> 7 [] c = "8" -> 8 [] c = "9" -> 9

\* strings.Fields: the maximal runs of non-space characters of s[k..], cur
\* being the run read so far
RECURSIVE FieldsFrom(_, _, _)
FieldsFrom(s, k, cur) ==
    IF k > Len(s) THEN (IF cur = <<>> THEN <<>> ELSE <<cur>>)
    ELSE IF s[k] = Space
         THEN (IF cur = <<>> THEN <<>> ELSE <<cur>>) \o FieldsFrom(s, k + 1, <<>>)
         ELSE FieldsFrom(s, k + 1, Append(cur, s[k]))

Fields(s) == FieldsFrom(s, 1, <<>>)

RECURSIVE DigitsValue(_, _, _)
DigitsValue(s, k, acc) ==
    IF k > Len(s) THEN acc ELSE DigitsValue(s, k + 1, acc * 10 + DigitVal(s[k]))

\* strconv.Atoi: an optional sign and at least one digit
Atoi(s) ==
    LET signed == Len(s) > 0 /\ s[1] \in {"-", "+"}
        body   == IF signed THEN Tail(s) ELSE s
    IN  IF Len(body) = 0 \/ \E k \in DOMAIN body : ~IsDigit(body[k])
        THEN [ok |-> FALSE, val |-> 0]
        ELSE [ok |-> TRUE,
              val |-> IF signed /\ s[1] = "-" THEN 0 - DigitsValue(body, 1, 0)
                      ELSE DigitsValue(body, 1, 0)]

\* BuildIntRange: the integers from the smaller to the larger of its arguments
BuildIntRange(rangeStart, rangeEnd) ==
    LET lo == Min(rangeStart, rangeEnd)
        hi == IF rangeStart < rangeEnd THEN rangeEnd ELSE rangeStart
    IN  [k \in 1..(hi - lo + 1) |-> lo + k - 1]

\* the pieces of s between its dashes
RECURSIVE SplitDashFrom(_, _, _)
SplitDashFrom(s, k, cur) ==
    IF k > Len(s) THEN <<cur>>
    ELSE IF s[k] = "-" THEN <<cur>> \o SplitDashFrom(s, k + 1, <<>>)
    ELSE SplitDashFrom(s, k + 1, Append(cur, s[k]))

\* BuildRange: "A-B" with A and B integers, in either direction
BuildRange(input) ==
    LET parts == SplitDashFrom(input, 1, <<>>)
    IN  IF Len(parts) # 2 THEN [ok |-> FALSE, numbers |-> <<>>]
        ELSE LET a == Atoi(parts[1])
                 b == Atoi(parts[2])
             IN  IF ~a.ok \/ ~b.ok THEN [ok |-> FALSE, numbers |-> <<>>]
                 ELSE [ok |-> TRUE, numbers |-> BuildIntRange(a.val, b.val)]

\* lines 319-328: the numbers a token stands for, the ^ already taken off
TokenNumbers(numS) ==
    LET n == Atoi(numS)
    IN  IF n.ok THEN [ok |-> TRUE, numbers |-> <<n.val>>] ELSE BuildRange(numS)

\* line 330: a display number that addresses no entry
OutOfRangeLax(target, la, lr) == target > la + lr \/ target < 0
OutOfRange(target, la, lr) == target > la + lr \/ target <= 0

\* lines 330-346: the list and the index (from 0) a display number addresses,
\* la and lr being len(aurUp) and len(repoUp)
Target(target, la, lr) ==
    IF OutOfRange(target, la, lr) THEN [List |-> "none", Index |-> 0]
    ELSE IF target <= la THEN [List |-> "aur", Index |-> la - target]
    ELSE [List |-> "repo", Index |-> la + lr - target]

\* the four slices of upgradePkgs
NoSelection ==
    [aurNums |-> <<>>, repoNums |-> <<>>, excludeAur |-> <<>>, excludeRepo |-> <<>>]

\* lines 329-347 for one number
AddTarget(sel, target, negate, la, lr) ==
    LET t == Target(target, la, lr)
    IN  IF t.List = "none" THEN sel
        ELSE IF t.List = "aur"
        THEN IF negate THEN [sel EXCEPT !.excludeAur = Append(@, t.Index)]
             ELSE [sel EXCEPT !.aurNums = Append(@, t.Index)]
        ELSE IF negate THEN [sel EXCEPT !.excludeRepo = Append(@, t.Index)]
             ELSE [sel EXCEPT !.repoNums = Append(@, t.Index)]

RECURSIVE AddTargets(_, _, _, _, _, _)
AddTargets(sel, numbers, k, negate, la, lr) ==
    IF k > Len(numbers) THEN sel
    ELSE AddTargets(AddTarget(sel, numbers[k], negate, la, lr), numbers, k + 1,
                    negate, la, lr)

\* lines 315-348 for one token
ParseToken(sel, numS, la, lr) ==
    LET negate == numS[1] = "^"
        rest   == IF negate THEN Tail(numS) ELSE numS
        n      == TokenNumbers(rest)
    IN  IF ~n.ok THEN sel ELSE AddTargets(sel, n.numbers, 1, negate, la, lr)

\* lines 314-348: the loop over the tokens of result, from the k-th on
RECURSIVE ParseTokens(_, _, _, _, _)
ParseTokens(sel, fields, k, la, lr) ==
    IF k > Len(fields) THEN sel
    ELSE ParseTokens(ParseToken(sel, fields[k], la, lr), fields, k + 1, la, lr)

\* lines 349-350: only exclusions were given
InvertCondNoExclusionNeeded(sel) == Len(sel.repoNums) = 0 /\ Len(sel.aurNums) = 0
InvertCondIgnoringAur(sel) ==
    /\ Len(sel.repoNums) = 0
    /\ (Len(sel.excludeRepo) > 0 \/ Len(sel.excludeAur) > 0)
InvertCond(sel) ==
    /\ Len(sel.repoNums) = 0 /\ Len(sel.aurNums) = 0
    /\ (Len(sel.excludeRepo) > 0 \/ Len(sel.excludeAur) > 0)

\* lines 349-357
InvertRepoOnly(sel, la, lr) ==
    IF InvertCond(sel)
    THEN [sel EXCEPT !.repoNums = IF lr > 0 THEN BuildIntRange(0, lr - 1) ELSE @]
    ELSE sel
Invert(sel, la, lr) ==
    IF InvertCond(sel)
    THEN [sel EXCEPT
            !.repoNums = IF lr > 0 THEN BuildIntRange(0, lr - 1) ELSE @,
            !.aurNums  = IF la > 0 THEN BuildIntRange(0, la - 1) ELSE @]
    ELSE sel

containsInt(s, e) == \E k \in DOMAIN s : s[k] = e

RemoveAt(target, k) == SubSeq(target, 1, k - 1) \o SubSeq(target, k + 1, Len(target))

\* the loop of removeIntListFromList, at index k (from 1) of what is left of
\* target
RECURSIVE RemoveSkipping(_, _, _)
RemoveSkipping(src, target, k) ==
    IF k > Len(target) THEN target
    ELSE IF containsInt(src, target[k]) THEN RemoveSkipping(src, RemoveAt(target, k), k + 1)
    ELSE RemoveSkipping(src, target, k + 1)

RECURSIVE RemoveFrom(_, _, _)
RemoveFrom(src, target, k) ==
    IF k > Len(target) THEN target
    ELSE IF containsInt(src, target[k]) THEN RemoveFrom(src, RemoveAt(target, k), k)
    ELSE RemoveFrom(src, target, k + 1)

removeIntListFromListSkipping(src, target) == RemoveSkipping(src, target, 1)
removeIntListFromList(src, target) == RemoveFrom(src, target, 1)

\* lines 312-359: the four slices after the tokens of the line were parsed
SelectionOf(fields, la, lr) ==
    LET parsed   == ParseTokens(NoSelection, fields, 1, la, lr)
        inverted == Invert(parsed, la, lr)
    IN  [inverted EXCEPT
            !.aurNums  = removeIntListFromList(inverted.excludeAur, inverted.aurNums),
            !.repoNums = removeIntListFromList(inverted.excludeRepo, inverted.repoNums)]

\* lines 364-370, 376-382: the names of the entries of u whose index is not in
\* nums
KeptListed(nums, idx) == containsInt(nums, idx)
Kept(nums, idx) == ~containsInt(nums, idx)

Names(u, nums) == {u[k].Name : k \in {j \in DOMAIN u : Kept(nums, j - 1)}}

----------------------------------------------------------------------------
(* upgradePkgs: the steps *)

\* the characters of the selection lines of the model
LineChars == {Space, "^", "-", "0", "1", "2", "3"}


\* the lists upList can return to upgradePkgs. repoUp: the first n installed
\* repository packages, in the order of local. aurUp: the first n installed
\* foreign packages as the main comparison sends them, in the order of remote,
\* or the same after a record of upDevel for the first of them
RepoUpLists ==
    {[k \in 1..n |-> upgrade(LocalNames[k], LocalDBs[k], InstalledVersion, "1.1-1")] :
        n \in 0..MaxRepoUp}

AurRecords(n) ==
    [k \in 1..n |-> AurUpgrade(RemotePkg(k, FALSE), AurPkg(RemoteNames[k], "1.1-1", 1))]

AurUpLists ==
    {AurRecords(n) : n \in 0..MaxAurUp} \cup
    {<<DevelUpgrade(RemotePkg(1, FALSE))>> \o AurRecords(n - 1) : n \in 2..MaxAurUp}

\* upList has returned to upgradePkgs: either filterPackages failed, or both
\* goroutines have run and sent their results; the packages behind the
\* returned lists are not followed any further
UpListReturned ==
    /\ syncErr = FALSE /\ local = <<>> /\ remote = <<>>
    /\ dtAur = <<>> /\ savedInfo = <<>>
    /\ pcMain = "done"
    /\ repoUpList \in IF filterErr THEN {<<>>} ELSE RepoUpLists
    /\ aurUp \in IF filterErr THEN {<<>>} ELSE AurUpLists
    /\ err = IF filterErr THEN "FilterError" ELSE Nil
    /\ i = IF filterErr THEN 0 ELSE 2
    /\ closed = ~filterErr
    /\ printed = <<>> /\ spins = 0 /\ errRecvd = (IF filterErr THEN 0 ELSE 2)
    /\ pcRepo = IF filterErr THEN "idle" ELSE "end"
    /\ pcAur = IF filterErr THEN "idle" ELSE "end"
    /\ repoErr = Nil
    /\ aurUpList = aurUp /\ aurErr = Nil /\ toUpgrade = aurUp
    /\ routines = 0 /\ routineDone = 0
    /\ pcDevel = "idle" /\ develTodo = {} /\ develPkg = <<>>
    /\ pcCmp = "idle" /\ cmpIdx = 1 /\ cmpPkg = <<>>
    /\ offered = aurUp /\ removed = {} /\ warned = {}
    /\ pcDiff = "idle" /\ oldVersion = <<>> /\ newversion = <<>>
    /\ left = <<>> /\ right = <<>>

\* upgradePkgs at line 288, upList having returned
InitSel ==
    /\ filterErr \in BOOLEAN
    /\ config \in Configs({FALSE}, {FALSE}, BOOLEAN)
    /\ UpListReturned
    /\ repoUp = repoUpList
    /\ pcUp = "call"
    /\ shown = <<>> /\ readResult = "none" /\ line = <<>> /\ result = <<>>
    /\ aurNums = <<>> /\ repoNums = <<>> /\ excludeAur = <<>> /\ excludeRepo = <<>>
    /\ repoNames = {} /\ aurNames = {} /\ upErr = Nil

\* lines 362-386: the two name sets
RepoNamesOf(u, nums) == IF Len(u) # 0 THEN Names(u, nums) ELSE {}
AurNamesOf(u, nums) == IF Len(u) # 0 THEN Names(u, nums) ELSE {}

\* lines 288-298: upList has returned; its result is looked at, sorted and
\* printed; with
\* config.NoConfirm (line 300) the name sets follow at once (lines 362-386)
UpgradePkgsList ==
    /\ pcUp = "call" /\ pcMain = "done"
    /\ IF err # Nil \/ Len(aurUp) + Len(repoUp) = 0
       THEN /\ upErr' = err
            /\ pcUp' = "done"
            /\ UNCHANGED <<repoUp, shown, repoNames, aurNames>>
       ELSE /\ repoUp' = Sort(repoUp)
            /\ shown' = upSlicePrint(repoUp', Len(aurUp) + 1, "repo")
                            \o upSlicePrint(aurUp, 1, "aur")
            /\ IF config.NoConfirm
               THEN /\ repoNames' = RepoNamesOf(repoUp', repoNums)
                    /\ aurNames' = AurNamesOf(aurUp, aurNums)
                    /\ upErr' = err
                    /\ pcUp' = "done"
               ELSE /\ pcUp' = "read"
                    /\ UNCHANGED <<repoNames, aurNames, upErr>>
    /\ UNCHANGED <<worldVars, diffVars, pcMain, i, aurUp, err, printed, spins, closed,
                   errRecvd,
                   repoVars, aurVars, develVars, cmpVars, histVars,
                   readResult, line, result, aurNums, repoNums, excludeAur,
                   excludeRepo>>

\* the user types one more character of the selection line, which upgradePkgs
\* waits for at line 305
TypeChar ==
    /\ pcUp = "read"
    /\ Len(line) < MaxLineLen
    /\ \E c \in LineChars : line' = Append(line, c)
    /\ UNCHANGED <<worldVars, diffVars, mainVars, repoVars, aurVars, develVars, cmpVars,
                   histVars, pcUp, shown, readResult, result, aurNums, repoNums,
                   excludeAur, excludeRepo, repoNames, aurNames, upErr>>

\* lines 311-386: with result the given tokens, the four slices and the name
\* sets are built and upgradePkgs returns them with the error of upList
Selected(fields) ==
    \E sel \in {SelectionOf(fields, Len(aurUp), Len(repoUp))} :
        /\ result' = fields
        /\ aurNums' = sel.aurNums
        /\ repoNums' = sel.repoNums
        /\ excludeAur' = sel.excludeAur
        /\ excludeRepo' = sel.excludeRepo
        /\ repoNames' = RepoNamesOf(repoUp, sel.repoNums)
        /\ aurNames' = AurNamesOf(aurUp, sel.aurNums)
        /\ upErr' = err

\* lines 300-386: the selection line is read and parsed, and the name sets
\* are built; reader.ReadLine() gives a line, or an error at the end of the
\* input (nothing was typed), or the start of a line that does not fit its
\* buffer (overflow, with a nil error; such a line is longer than any line
\* followed here, and its characters are not kept); line is what was typed
\* (numberBuf)
UpgradePkgsRead ==
    /\ pcUp = "read"
    /\ \/ /\ line = <<>>
          /\ readResult' = "EOF"
          /\ upErr' = "EOF"
          /\ UNCHANGED <<line, result, aurNums, repoNums, excludeAur, excludeRepo,
                         repoNames, aurNames>>
       \/ /\ line = <<>>
          /\ readResult' = "overflow"
          /\ upErr' = Nil
          /\ UNCHANGED <<line, result, aurNums, repoNums, excludeAur, excludeRepo,
                         repoNames, aurNames>>
       \/ /\ readResult' = "line"
          /\ UNCHANGED line
          /\ \E fields \in {Fields(line)} : Selected(fields)
    /\ pcUp' = "done"
    /\ UNCHANGED <<worldVars, diffVars, mainVars, repoVars, aurVars, develVars, cmpVars,
                   histVars, shown>>

NextSel == UpgradePkgsList \/ TypeChar \/ UpgradePkgsRead

SpecSel == InitSel /\ [][NextSel]_vars

\* the tokens of the selection lines whose parsing is followed on its own
Tokens ==
    {<<"1">>, <<"2">>, <<"3">>, <<"1", "-", "2">>,
     <<"^", "1">>, <<"^", "2">>, <<"^", "4">>, <<"^", "3", "-", "4">>, <<"9">>}

TokenLists == UNION {[1..n -> Tokens] : n \in 0..MaxTokens}

\* a line with the given fields
RECURSIVE JoinFields(_)
JoinFields(fields) ==
    IF fields = <<>> THEN <<>>
    ELSE IF Len(fields) = 1 THEN fields[1]
    ELSE fields[1] \o <<Space>> \o JoinFields(Tail(fields))

\* upgradePkgs after line 311: the lists were sorted and printed, a line was
\* read and split into the tokens of result
InitTok ==
    /\ filterErr = FALSE
    /\ config \in Configs({FALSE}, {FALSE}, {FALSE})
    /\ UpListReturned
    /\ repoUp = Sort(repoUpList)
    /\ Len(aurUp) + Len(repoUp) # 0
    /\ shown = upSlicePrint(repoUp, Len(aurUp) + 1, "repo") \o upSlicePrint(aurUp, 1, "aur")
    /\ pcUp = "parse"
    /\ readResult = "line"
    /\ result \in TokenLists
    /\ line = JoinFields(result)
    /\ aurNums = <<>> /\ repoNums = <<>> /\ excludeAur = <<>> /\ excludeRepo = <<>>
    /\ repoNames = {} /\ aurNames = {} /\ upErr = Nil

\* lines 312-386
ParseSelection ==
    /\ pcUp = "parse"
    /\ Selected(result)
    /\ pcUp' = "done"
    /\ UNCHANGED <<worldVars, diffVars, mainVars, repoVars, aurVars, develVars,
                   cmpVars, histVars, shown, readResult, line>>

NextTok == ParseSelection

SpecTok == InitTok /\ [][NextTok]_vars

\* upgradePkgs from its call of upList on (line 288), with config.NoConfirm:
\* upList and its goroutines run, then the name sets are built
InitFlow ==
    /\ InitWorld(BOOLEAN, BOOLEAN, LocalWorlds, MaxRemote, RemoteAttrsSmall,
                 SavedInfosSmall, Configs(BOOLEAN, {FALSE}, {TRUE}))
    /\ InitProcs
    /\ pcMain = "start" /\ pcRepo = "idle" /\ pcAur = "idle" /\ pcUp = "call"

NextFlow == Next \/ UpgradePkgsList

SpecFlow == InitFlow /\ [][NextFlow]_vars

----------------------------------------------------------------------------
(* getVersionDiff *)

\* strings.Split(s, sep) for a one-character sep: the pieces of s[k..], cur
\* being the piece read so far
RECURSIVE SplitFrom(_, _, _, _)
SplitFrom(s, sep, k, cur) ==
    IF k > Len(s) THEN <<cur>>
    ELSE IF s[k] = sep THEN <<cur>> \o SplitFrom(s, sep, k + 1, <<>>)
    ELSE SplitFrom(s, sep, k + 1, Append(cur, s[k]))

Split(s, sep) == SplitFrom(s, sep, 1, <<>>)

\* a pkgver: not empty, an alphanumeric character first, then alphanumeric
\* characters or one of _ + .
validPkgver(version) ==
    /\ Len(version) >= 1
    /\ IsDigit(version[1])
    /\ \A k \in 2..Len(version) : IsDigit(version[k]) \/ version[k] \in {"_", "+", "."}

\* pkgb.NewCompleteVersion: "[epoch:]version[-pkgrel]"; ok is FALSE where it
\* returns an error
NoVersion == [ok |-> FALSE, Version |-> <<>>, Epoch |-> 0, Pkgrel |-> <<>>]

NewCompleteVersion(s) ==
    LET versions == Split(s, ":")
        epoch    == IF Len(versions) > 1 THEN Atoi(versions[1])
                    ELSE [ok |-> TRUE, val |-> 0]
        parts    == Split(versions[Len(versions)], "-")
    IN  IF Len(versions) > 2 \/ ~epoch.ok \/ Len(parts) > 2 \/ ~validPkgver(parts[1])
        THEN NoVersion
        ELSE [ok |-> TRUE, Version |-> parts[1], Epoch |-> epoch.val % 256,
              Pkgrel |-> IF Len(parts) > 1 THEN parts[2] ELSE <<>>]

\* a display string: pieces of text, each inside the colour functions applied
\* to it, outermost first; the empty string has no piece
Styled(styles, text) == <<[styles |-> styles, text |-> text]>>
Plain(text) == Styled(<<>>, text)
Dash == <<"-">>

\* red("Invalid Version")
InvalidVersion ==
    Styled(<<"red">>, <<"I", "n", "v", "a", "l", "i", "d", " ",
                        "V", "e", "r", "s", "i", "o", "n">>)

\* lines 72-73 and 75-76: the two display forms
ReleaseForm(v, colour) == Plain(v.Version \o Dash) \o Styled(colour, v.Pkgrel)
VersionForm(v, colour) == Styled(colour, v.Version) \o Plain(Dash \o v.Pkgrel)

\* lines 59-81
getVersionDiff(oldV, newV) ==
    LET old == NewCompleteVersion(oldV)
        new == NewCompleteVersion(newV)
    IN  IF old.ok /\ new.ok
        THEN IF old.Version = new.Version
             THEN [left  |-> ReleaseForm(old, <<"red">>),
                   right |-> ReleaseForm(new, <<"green">>)]
             ELSE [left  |-> VersionForm(old, <<"red">>),
                   right |-> VersionForm(new, <<"bold", "green">>)]
        ELSE [left  |-> IF ~old.ok THEN InvalidVersion ELSE <<>>,
              right |-> IF ~new.ok THEN InvalidVersion ELSE <<>>]

\* the version strings getVersionDiff is called with
VersionChars == {"1", "2", ":", "-"}
VersionStrings == UNION {[1..n -> VersionChars] : n \in 0..MaxVerLen}

\* a call of getVersionDiff on its own
InitDiff ==
    /\ filterErr = FALSE /\ syncErr = FALSE /\ local = <<>> /\ remote = <<>>
    /\ dtAur = <<>> /\ savedInfo = <<>>
    /\ config \in Configs({FALSE}, {FALSE}, {FALSE})
    /\ InitIdle
    /\ pcMain = "start" /\ pcRepo = "idle" /\ pcAur = "idle" /\ pcUp = "idle"
    /\ pcDiff = "call"
    /\ oldVersion \in VersionStrings /\ newversion \in VersionStrings
    /\ left = <<>> /\ right = <<>>

GetVersionDiff ==
    /\ pcDiff = "call"
    /\ \E d \in {getVersionDiff(oldVersion, newversion)} :
          left' = d.left /\ right' = d.right
    /\ pcDiff' = "done"
    /\ UNCHANGED <<worldVars, mainVars, repoVars, aurVars, develVars, cmpVars,
                   histVars, selVars, oldVersion, newversion>>

NextDiff == GetVersionDiff

SpecDiff == InitDiff /\ [][NextDiff]_vars

----------------------------------------------------------------------------
(* Claims about upList *)

Count(list, r) == Cardinality({k \in DOMAIN list : list[k] = r})
SameRecords(s, t) == \A r \in Range(s) \cup Range(t) : Count(s, r) = Count(t, r)

\* C1: partial success. When upList has returned and exactly one of the two
\* fetchers reported a non-nil error, the list of the other fetcher is returned
\* exactly as that fetcher produced it, the failing fetcher contributes an
\* empty list, the error was printed, and the error upList returns is nil.
C1_PartialSuccess ==
    (pcMain = "done" /\ ~filterErr) =>
        /\ (repoErr # Nil /\ aurErr = Nil) =>
              /\ aurUp = aurUpList /\ aurUpList = toUpgrade
              /\ repoUp = <<>>
              /\ printed = <<repoErr>>
              /\ err = Nil
        /\ (aurErr # Nil /\ repoErr = Nil) =>
              /\ repoUp = repoUpList /\ repoUpList = upRepo(local, syncErr).slice
              /\ aurUp = <<>>
              /\ printed = <<aurErr>>
              /\ err = Nil

\* upRepo failed, upAUR found upgrades, and upList has returned
C1_Witness ==
    pcMain = "done" /\ repoErr # Nil /\ aurErr = Nil /\ Len(aurUp) = 2

\* C2: upList leaves its loop only with i = 2, after one value was received
\* from repoC and one from aurC: both goroutines are past their last send,
\* repoUp is the value the upRepo goroutine sent and aurUp the value the upAUR
\* goroutine sent.
C2_BothReceived ==
    (pcMain = "done" /\ ~filterErr) =>
        /\ i = 2
        /\ pcRepo = "end" /\ pcAur = "end"
        /\ repoUp = repoUpList
        /\ aurUp = aurUpList

\* upList has returned two non-empty lists after at least one empty iteration
C2_Witness ==
    pcMain = "done" /\ i = 2 /\ repoUp # <<>> /\ aurUp # <<>> /\ spins > 0

\* C3: under fair scheduling of the goroutines, upList eventually returns.
C3_Terminates == <>(pcMain = "done")

\* upList has returned after its fetchers ran, one of them with an error
C3_Witness ==
    pcMain = "done" /\ ~filterErr /\ printed # <<>> /\ config.Devel

\* C5: the aggregator never executes an iteration of its loop that receives
\* nothing while fewer than two results have been received.
C5_NeverBusyPolls == spins = 0

----------------------------------------------------------------------------
(* Claims about upAUR *)

\* upAUR has returned: its goroutine is at or past errC <- err
AurReturned == pcAur \in {"sendErr", "sendList", "end"}

\* C4: upAUR returns only after every sub-task it started has signalled done,
\* and the list it returns holds the records the sub-tasks put on packageC,
\* each as often as it was sent, and nothing else.
C4_AllRecordsCollected ==
    AurReturned =>
        /\ pcCmp = "end"
        /\ config.Devel => pcDevel = "end"
        /\ routineDone = routines
        /\ SameRecords(aurUpList, offered)

\* upAUR has returned a record of upDevel and a record of the main comparison
C4_Witness ==
    /\ AurReturned /\ config.Devel
    /\ \E j, k \in DOMAIN aurUpList :
          aurUpList[j].Repository = RepoDevel /\ aurUpList[k].Repository = RepoAur

----------------------------------------------------------------------------
(* Claims about upgradePkgs *)

la == Len(aurUp)
lr == Len(repoUp)

AllNames(u) == {u[k].Name : k \in DOMAIN u}

\* the selection line was read and upgradePkgs has returned
LineDone == pcUp = "done" /\ readResult = "line"

\* the line holds no token: it is empty or all spaces
NoTokens == \A k \in DOMAIN line : line[k] = Space

\* a token, its ^ (if any) taken off
Caret(tok) == tok[1] = "^"
Rest(tok) == IF Caret(tok) THEN Tail(tok) ELSE tok

\* a token that is a number or a range all of whose numbers name an entry
InRange(tok) ==
    /\ TokenNumbers(Rest(tok)).ok
    /\ \A n \in Range(TokenNumbers(Rest(tok)).numbers) : n \in 1..(la + lr)

\* the display numbers named by the ^ tokens, and by the plain tokens
NamedBy(caret) ==
    UNION {Range(TokenNumbers(Rest(tok)).numbers) :
              tok \in {t \in Range(result) : Caret(t) = caret}}

\* the names on the printed rows of a list whose numbers are, or are not, in nums
RowNames(list, nums, in) ==
    {r.Name : r \in {x \in Range(shown) : x.List = list /\ ((x.Num \in nums) = in)}}

\* C6: with config.NoConfirm set, or with a selection line that holds no
\* token, the name sets upgradePkgs returns are the names of all of repoUp and
\* of all of aurUp.
C6_SelectEverything ==
    (pcUp = "done" /\ (config.NoConfirm \/ (readResult = "line" /\ NoTokens))) =>
        /\ repoNames = AllNames(repoUp)
        /\ aurNames = AllNames(aurUp)

\* a line of spaces was read and both lists, of two entries each, are returned
C6_Witness ==
    /\ LineDone /\ NoTokens /\ Len(line) > 0
    /\ Cardinality(repoNames) = 2 /\ Cardinality(aurNames) = 2

\* C7 as claimed: when every token is ^-prefixed and in range, the name sets
\* hold every entry except those the ^ tokens name.
C7_ExclusionOnly_Original ==
    (LineDone /\ \A tok \in Range(result) : Caret(tok) /\ InRange(tok)) =>
        /\ repoNames = RowNames("repo", NamedBy(TRUE), FALSE)
        /\ aurNames = RowNames("aur", NamedBy(TRUE), FALSE)

\* C7 as amended: when the line holds at least one token and every token is
\* ^-prefixed and in range, the name sets hold exactly the entries the ^
\* tokens name.
C7_CaretOnlyKeepsNamed ==
    (/\ LineDone /\ result # <<>>
     /\ \A tok \in Range(result) : Caret(tok) /\ InRange(tok)) =>
        /\ repoNames = RowNames("repo", NamedBy(TRUE), TRUE)
        /\ aurNames = RowNames("aur", NamedBy(TRUE), TRUE)

\* one repository upgrade, one foreign upgrade, and the line "^1": the foreign
\* upgrade alone is returned
C7_Witness ==
    /\ LineDone /\ line = <<"^", "1">> /\ la = 1 /\ lr = 1
    /\ repoNames = {} /\ aurNames = AllNames(aurUp)

\* C8: when every token is an un-prefixed in-range number or range and the
\* names of the two lists are pairwise distinct, the name sets hold exactly
\* the entries whose display numbers are not listed, and no listed name.
C8_PlainMeansNotUpgrade ==
    (/\ LineDone
     /\ \A tok \in Range(result) : ~Caret(tok) /\ InRange(tok)
     /\ Cardinality(AllNames(aurUp) \cup AllNames(repoUp)) = la + lr) =>
        /\ repoNames = RowNames("repo", NamedBy(FALSE), FALSE)
        /\ aurNames = RowNames("aur", NamedBy(FALSE), FALSE)
        /\ \A r \in Range(shown) :
              r.Num \in NamedBy(FALSE) => r.Name \notin repoNames \cup aurNames

\* two plain tokens took one entry out of each of two lists of two
C8_Witness ==
    /\ LineDone /\ Len(result) = 2
    /\ \A tok \in Range(result) : ~Caret(tok) /\ InRange(tok)
    /\ la = 2 /\ lr = 2
    /\ Cardinality(repoNames) = 1 /\ Cardinality(aurNames) = 1

\* the rows were printed
Printed == pcUp = "read" \/ (pcUp = "done" /\ shown # <<>>)

\* C9: the numbers printed are 1..len(aurUp)+len(repoUp), each once, and the
\* parser maps the number of a row to the list and the index of the entry on
\* that row (N <= len(aurUp) to aurUp[len(aurUp)-N], else to
\* repoUp[len(aurUp)+len(repoUp)-N]), an index inside the list; a line that is
\* just that number selects that one index.
C9_NumberingInverse ==
    Printed =>
        /\ Len(shown) = la + lr
        /\ {shown[k].Num : k \in DOMAIN shown} = 1..(la + lr)
        /\ \A k \in DOMAIN shown :
              LET r == shown[k]
                  t == Target(r.Num, la, lr)
                  u == IF r.List = "aur" THEN aurUp ELSE repoUp
              IN  /\ t.List = r.List /\ t.Index = r.Index
                  /\ r.List = "aur" <=> r.Num <= la
                  /\ t.Index = (IF r.Num <= la THEN la - r.Num ELSE la + lr - r.Num)
                  /\ t.Index \in 0..(Len(u) - 1)
                  /\ u[t.Index + 1].Name = r.Name
                  /\ (/\ pcUp = "done" /\ readResult = "line"
                      /\ Len(line) = 1 /\ IsDigit(line[1]) /\ DigitVal(line[1]) = r.Num) =>
                        /\ aurNums = IF r.List = "aur" THEN <<r.Index>> ELSE <<>>
                        /\ repoNums = IF r.List = "repo" THEN <<r.Index>> ELSE <<>>

\* four rows were printed and the line "3" selected the second entry of repoUp
C9_Witness ==
    /\ pcUp = "done" /\ readResult = "line" /\ la = 2 /\ lr = 2
    /\ line = <<"3">> /\ repoNums = <<1>> /\ aurNums = <<>>

\* a token that is a number (plain or ^-prefixed) naming no entry
OutOfRangeToken(tok) ==
    \E n \in {Atoi(Rest(tok))} : n.ok /\ (n.val <= 0 \/ n.val > la + lr)

InRangeTokens == SelectSeq(result, LAMBDA tok : ~OutOfRangeToken(tok))

\* C10: out-of-range numbers have no effect: the name sets are those of the
\* line without its out-of-range tokens, and no error is returned.
C10_OutOfRangeIgnored ==
    LineDone =>
        \A sel \in {SelectionOf(InRangeTokens, la, lr)} :
            /\ upErr = Nil
            /\ repoNames = Names(repoUp, sel.repoNums)
            /\ aurNames = Names(aurUp, sel.aurNums)

\* a line with an out-of-range token and a ^ token that took effect
C10_Witness ==
    /\ LineDone /\ la = 1 /\ lr = 1
    /\ \E tok \in Range(result) : OutOfRangeToken(tok)
    /\ \E tok \in Range(result) : Caret(tok) /\ InRange(tok)
    /\ repoNames = {} /\ aurNames = AllNames(aurUp)

\* C11: when reading the selection line fails (end of input) or the line is
\* oversized (overflow), upgradePkgs returns a non-nil error and two empty
\* name sets.
C11_ReadFailureFatal ==
    (pcUp = "done" /\ readResult \in {"EOF", "overflow"}) =>
        /\ upErr # Nil
        /\ repoNames = {} /\ aurNames = {}

----------------------------------------------------------------------------
(* Claims about ignored packages *)

\* the names of the installed packages with ShouldIgnore() true
IgnoredNames ==
    {local[k].Name : k \in {j \in DOMAIN local : local[j].Ignore}} \cup
    {remote[k].Name : k \in {j \in DOMAIN remote : remote[j].Ignore}}

\* C12: no record of an ignore-flagged package is in the list built by upRepo,
\* in a record sent to or collected by upAUR (from the main comparison or from
\* upDevel), in the lists upList returns, or in the name sets of upgradePkgs;
\* once a fetcher has looked at such a package that has an upgrade, the
\* warning about it was printed.
C12_IgnoredNeverEmitted ==
    /\ \A list \in {repoUpList, repoUp, toUpgrade, aurUpList, aurUp, offered,
                     develPkg, cmpPkg} :
          \A k \in DOMAIN list : list[k].Name \notin IgnoredNames
    /\ (repoNames \cup aurNames) \cap IgnoredNames = {}
    /\ (pcRepo # "idle" /\ pcRepo # "run" /\ ~syncErr) =>
          \A k \in DOMAIN local :
              (local[k].Ignore /\ local[k].NewVersion # "") =>
                  <<"repo", local[k].Name>> \in warned
    /\ pcCmp = "end" =>
          \A k \in DOMAIN remote :
              (/\ remote[k].Ignore /\ remote[k].Name \in DOMAIN dtAur
               /\ Qualifies(remote[k], dtAur[remote[k].Name], config.TimeUpdate)) =>
                  <<"aur", remote[k].Name>> \in warned
    /\ pcDevel = "end" =>
          \A k \in DOMAIN remote :
              (/\ remote[k].Ignore /\ remote[k].Name \in DOMAIN savedInfo
               /\ savedInfo[remote[k].Name]) =>
                  <<"devel", remote[k].Name>> \in warned

\* upgradePkgs has returned; an ignored repository package and an ignored
\* foreign package had upgrades, and both were only warned about
C12_Witness ==
    /\ pcUp = "done" /\ upErr = Nil /\ ~syncErr
    /\ \E k \in DOMAIN local : local[k].Ignore /\ local[k].NewVersion # ""
    /\ \E k \in DOMAIN remote : remote[k].Ignore /\ <<"aur", remote[k].Name>> \in warned
    /\ repoNames = {} /\ aurNames = {}

----------------------------------------------------------------------------
(* Further claims about upAUR and upDevel *)

\* C13: the list upAUR returns never holds two records with the same Name.
C13_UniqueNames ==
    AurReturned =>
        \A j, k \in DOMAIN aurUpList :
            aurUpList[j].Name = aurUpList[k].Name => j = k

----------------------------------------------------------------------------
(* Claims about getVersionDiff *)

DiffDone == pcDiff = "done"
OldParsed == NewCompleteVersion(oldVersion)
NewParsed == NewCompleteVersion(newversion)

\* C14: when both versions parse, the release-only form is used exactly when
\* epoch and version are both equal; when the epoch or the version differs the
\* whole version is emphasized on both sides (old as old, new as new and
\* strong) and the release is left unemphasized.
C14_VersionFormWhenComponentDiffers ==
    (DiffDone /\ OldParsed.ok /\ NewParsed.ok) =>
        IF OldParsed.Epoch = NewParsed.Epoch /\ OldParsed.Version = NewParsed.Version
        THEN /\ left = ReleaseForm(OldParsed, <<"red">>)
             /\ right = ReleaseForm(NewParsed, <<"green">>)
        ELSE /\ left = VersionForm(OldParsed, <<"red">>)
             /\ right = VersionForm(NewParsed, <<"bold", "green">>)

\* C15: when exactly one of the two versions fails to parse, that side is the
\* invalid-version marker and the other side is computed from its parsed
\* version: it is neither empty nor the marker.
C15_DegradesPerSide ==
    (DiffDone /\ OldParsed.ok # NewParsed.ok) =>
        /\ ~OldParsed.ok => (left = InvalidVersion /\ right # <<>> /\ right # InvalidVersion)
        /\ ~NewParsed.ok => (right = InvalidVersion /\ left # <<>> /\ left # InvalidVersion)

\* the main comparison has sent a record for the installed package pkg
SentByComparison(pkg) ==
    \E j \in DOMAIN offered :
        offered[j].Name = pkg.Name /\ offered[j].Repository = RepoAur

\* C16: once the main comparison has finished, it has sent a record for an
\* installed foreign package if and only if the package has an entry in
\* dt.Aur, is not ignored, and the AUR version is strictly newer or
\* config.TimeUpdate is set and the entry was modified after the package was
\* built; the record carries both versions; with TimeUpdate off an equal or
\* older AUR version gives no record.
C16_ForeignQualification ==
    pcCmp = "end" =>
        \A k \in DOMAIN remote :
            LET pkg == remote[k]
                has == pkg.Name \in DOMAIN dtAur
            IN  /\ SentByComparison(pkg) <=>
                      /\ has
                      /\ ~pkg.Ignore
                      /\ \/ VerRank(pkg.Version) < VerRank(dtAur[pkg.Name].Version)
                         \/ /\ config.TimeUpdate
                            /\ dtAur[pkg.Name].LastModified > pkg.BuildDate
                /\ SentByComparison(pkg) =>
                      Count(offered, upgrade(pkg.Name, RepoAur, pkg.Version,
                                             dtAur[pkg.Name].Version)) = 1
                /\ (/\ ~config.TimeUpdate /\ has
                    /\ VerRank(dtAur[pkg.Name].Version) <= VerRank(pkg.Version)) =>
                      ~SentByComparison(pkg)

\* with TimeUpdate, a package whose AUR entry has the installed version but
\* was modified after the build was returned by upAUR
C16_Witness ==
    /\ AurReturned /\ config.TimeUpdate
    /\ \E k \in DOMAIN remote :
          /\ remote[k].Name \in DOMAIN dtAur
          /\ dtAur[remote[k].Name].Version = remote[k].Version
          /\ dtAur[remote[k].Name].LastModified > remote[k].BuildDate
          /\ \E j \in DOMAIN aurUpList :
                aurUpList[j] = upgrade(remote[k].Name, RepoAur, remote[k].Version,
                                       remote[k].Version)

\* the records of upDevel for the VCS entry vcsName, among those put on packageC
DevelRecords(vcsName) ==
    {j \in DOMAIN offered :
        offered[j].Name = vcsName /\ offered[j].Repository = RepoDevel}

\* the installed foreign packages named vcsName
Installed(vcsName) == {k \in DOMAIN remote : remote[k].Name = vcsName}

\* upDevel has left its loop over savedInfo
DevelLoopDone == pcDevel \in {"done", "end"}

\* C19: a removal is requested only for, and once upDevel has left its loop
\* for every, entry that needs an update and matches no installed package,
\* and no record is sent for it; an entry that needs an update and matches a
\* non-ignored installed package gets exactly one record, with repository
\* "devel" and candidate version "latest-commit", and no removal; an entry
\* that needs no update gets neither. done is signalled after the last record
\* was received, once.
C19_DevelEntries ==
    /\ \A vcsName \in removed :
          savedInfo[vcsName] /\ Installed(vcsName) = {}
    /\ \A j \in DOMAIN offered :
          offered[j].Repository = RepoDevel =>
              /\ offered[j].Name \in DOMAIN savedInfo
              /\ savedInfo[offered[j].Name]
              /\ \E k \in Installed(offered[j].Name) :
                    /\ ~remote[k].Ignore
                    /\ offered[j] = upgrade(remote[k].Name, RepoDevel,
                                            remote[k].Version, "latest-commit")
              /\ offered[j].Name \notin removed
              /\ Cardinality(DevelRecords(offered[j].Name)) = 1
    /\ DevelLoopDone =>
          /\ \A vcsName \in DOMAIN savedInfo :
                IF ~savedInfo[vcsName]
                THEN DevelRecords(vcsName) = {} /\ vcsName \notin removed
                ELSE IF Installed(vcsName) = {}
                THEN DevelRecords(vcsName) = {} /\ vcsName \in removed
                ELSE (\E k \in Installed(vcsName) : ~remote[k].Ignore) =>
                        Cardinality(DevelRecords(vcsName)) = 1
          /\ develPkg = <<>>
          /\ \A j \in DOMAIN offered :
                offered[j].Repository = RepoDevel =>
                    \E k \in DOMAIN toUpgrade : toUpgrade[k] = offered[j]
    /\ routineDone = (IF pcDevel = "end" THEN 1 ELSE 0) + (IF pcCmp = "end" THEN 1 ELSE 0)

\* upDevel has signalled done after it sent a record for an installed
\* package, asked for the removal of a stale entry and skipped an entry that
\* needs no update
C19_Witness ==
    /\ pcDevel = "end"
    /\ removed # {}
    /\ \E j \in DOMAIN offered : offered[j].Repository = RepoDevel
    /\ \E vcsName \in DOMAIN savedInfo : ~savedInfo[vcsName]

----------------------------------------------------------------------------
(* Further claims about upList *)

\* a goroutine that has sent its error, and one that has sent its result too
SentErr(pc) == pc \in {"sendList", "end"}
SentBoth(pc) == pc = "end"

\* C20: the channels are closed only after both goroutines have completed
\* their two sends, the error before the result; so no goroutine is at or
\* before a send once they are closed or once upList has returned, and when
\* the loop is left two values were received on errC.
C20_CloseAfterAllSends ==
    /\ closed => SentBoth(pcRepo) /\ SentBoth(pcAur)
    /\ pcMain = "done" => pcRepo \in {"idle", "end"} /\ pcAur \in {"idle", "end"}
    /\ (pcMain = "done" /\ ~filterErr) => (closed /\ errRecvd = 2 /\ i = 2)
    /\ errRecvd = (IF SentErr(pcRepo) THEN 1 ELSE 0) + (IF SentErr(pcAur) THEN 1 ELSE 0)
    /\ i = (IF SentBoth(pcRepo) THEN 1 ELSE 0) + (IF SentBoth(pcAur) THEN 1 ELSE 0)

\* the channels were closed after an error of upRepo and a nil error of upAUR
\* were received and both lists arrived
C20_Witness ==
    /\ closed /\ errRecvd = 2 /\ printed # <<>>
    /\ pcRepo = "end" /\ pcAur = "end" /\ aurUp # <<>>

----------------------------------------------------------------------------
(* Claims about the index sets of upgradePkgs *)

\* the tokens were parsed and upgradePkgs has returned
Parsed == pcUp = "done" /\ readResult = "line"

\* the indices of a list ("aur", "repo") that the plain tokens, or the ^
\* tokens, name
IndicesNamed(list, caret) ==
    {Target(n, la, lr).Index :
        n \in {m \in NamedBy(caret) : Target(m, la, lr).List = list}}

FullRange(n) == [k \in 1..n |-> k - 1]

Without(s, excluded) == SelectSeq(s, LAMBDA x : x \notin excluded)

\* C17: when no plain token names an entry of either list and a ^ token names
\* an entry of one of them, repoNums and aurNums are both set to the full
\* ranges 0..len-1 before the subtraction, and are the full ranges without
\* the ^ indices of their list after it; a list of length 0 keeps an empty
\* set.
C17_ExcludeOnlyInversion ==
    (/\ Parsed
     /\ IndicesNamed("aur", FALSE) \cup IndicesNamed("repo", FALSE) = {}
     /\ IndicesNamed("aur", TRUE) \cup IndicesNamed("repo", TRUE) # {}) =>
        /\ \A before \in {Invert(ParseTokens(NoSelection, result, 1, la, lr), la, lr)} :
              before.repoNums = FullRange(lr) /\ before.aurNums = FullRange(la)
        /\ repoNums = Without(FullRange(lr), IndicesNamed("repo", TRUE))
        /\ aurNums = Without(FullRange(la), IndicesNamed("aur", TRUE))
        /\ lr = 0 => repoNums = <<>>
        /\ la = 0 => aurNums = <<>>

\* only a ^ token for the second repository entry was given: aurNums is the
\* full range of aurUp, which received no token, and repoNums has lost an
\* index
C17_Witness ==
    /\ Parsed /\ la = 2 /\ lr = 2
    /\ result = <<<<"^", "4">>>>
    /\ aurNums = <<0, 1>> /\ repoNums = <<1>>

\* C18: when a plain token names an entry of either list, nothing is
\* inverted, and aurNums and repoNums hold exactly the indices named by the
\* plain tokens of their list that no ^ token of that list names, in the
\* order given, no occurrence of an excluded index being left.
C18_MixedSelection ==
    (/\ Parsed
     /\ IndicesNamed("aur", FALSE) \cup IndicesNamed("repo", FALSE) # {}) =>
        \A parsed \in {ParseTokens(NoSelection, result, 1, la, lr)} :
            /\ Invert(parsed, la, lr) = parsed
            /\ aurNums = Without(parsed.aurNums, IndicesNamed("aur", TRUE))
            /\ repoNums = Without(parsed.repoNums, IndicesNamed("repo", TRUE))
            /\ Range(aurNums) = IndicesNamed("aur", FALSE) \ IndicesNamed("aur", TRUE)
            /\ Range(repoNums) = IndicesNamed("repo", FALSE) \ IndicesNamed("repo", TRUE)

\* the same entry of aurUp was listed twice and excluded once: no occurrence
\* is left, and the other list, with a plain token only, is not inverted
C18_Witness ==
    /\ Parsed /\ la = 2 /\ lr = 2
    /\ result = <<<<"1">>, <<"1">>, <<"^", "1">>>>
    /\ aurNums = <<>> /\ repoNums = <<>> /\ excludeAur = <<1>>

====
